---- MODULE Spec2Model ----
(***************************************************************************)
(* Model of gcn.py: the GraphConvolution layer (lazy build on the first    *)
(* invocation, forward call) and the StackedGraphConvolution model.        *)
(*                                                                         *)
(* Tensor entries are floating point numbers in the program.  They are     *)
(* modelled as exact extended rationals <<n, d>> (n/d in lowest terms,     *)
(* d > 0), with <<1, 0>> = +inf, <<-1, 0>> = -inf and <<0, 0>> = NaN, so   *)
(* that the reciprocal of a zero degree and 0 * inf behave as IEEE         *)
(* arithmetic does.  Rounding and the sign of zero are not modelled.       *)
(*                                                                         *)
(* A tensor is a record [shape, val]: shape is the tuple of its            *)
(* dimensions and val the nested tuples of its entries.                    *)
(***************************************************************************)
EXTENDS Integers, Sequences, FiniteSets, TLC

VARIABLES
    gc,          \* the GraphConvolution instance: its configuration and parameters
    args,        \* the input list of the latest invocation
    status,      \* "new", or how the latest invocation ended: "returned" / "raised"
    result,      \* the value the latest invocation returned
    normalized,  \* the adjacency normalizations the latest invocation ran
    stack,       \* the StackedGraphConvolution instance, its layers included
    pc,          \* where its call is: "idle", "loop", "returned", "raised"
    call_inputs, \* the input list of its latest call
    index,       \* the layers the loop of the call has completed
    cur_x,       \* the local x of the call
    cur_A,       \* the local A of the call
    outputs,     \* the local outputs of the call, also what it returns
    fed          \* history: the layers invoked, in order, and the input list of each

layer_vars == <<gc, args, status, result>>

stack_vars == <<stack, pc, call_inputs, index, cur_x, cur_A, outputs, fed>>

vars == <<gc, args, status, result, normalized, stack, pc, call_inputs, index,
          cur_x, cur_A, outputs, fed>>

\* ------------------------------------------------------------------ bounds

\* Largest number of nodes N of an input graph.
MaxN == 2
\* Largest num_layers a StackedGraphConvolution is constructed with.
MaxLayers == 2

\* ------------------------------------------------------- scalar arithmetic

Abs(n) == IF n < 0 THEN -n ELSE n

Sign(n) == IF n < 0 THEN -1 ELSE IF n > 0 THEN 1 ELSE 0

RECURSIVE GCD(_, _)
GCD(a, b) == IF b = 0 THEN a ELSE GCD(b, a % b)

\* The extended rational n/d in canonical form.
FNorm(n, d) ==
    IF d = 0 THEN <<Sign(n), 0>>
    ELSE LET g == GCD(Abs(n), Abs(d))
             s == Sign(d)
         IN  <<(s * n) \div g, (s * d) \div g>>

Num(k) == <<k, 1>>
Zero == <<0, 1>>
NaN == <<0, 0>>

IsFinite(a) == a[2] # 0

\* a + b
FAdd(a, b) ==
    IF a = NaN \/ b = NaN THEN NaN
    ELSE IF a[2] = 0 /\ b[2] = 0 THEN (IF a = b THEN a ELSE NaN)
    ELSE IF a[2] = 0 THEN a
    ELSE IF b[2] = 0 THEN b
    ELSE FNorm(a[1] * b[2] + b[1] * a[2], a[2] * b[2])

\* a * b   (inf * 0 = NaN)
FMul(a, b) == FNorm(a[1] * b[1], a[2] * b[2])

\* a - b
FSub(a, b) == FAdd(a, FMul(Num(-1), b))

\* 1. / a   (1/0 = inf, 1/inf = 0)
FInv(a) == FNorm(a[2], a[1])

\* ------------------------------------------------------------------ tensors

Tensor(shape, val) == [shape |-> shape, val |-> val]

Rank(T) == Len(T.shape)

\* The (rows, cols) matrix with entry (i, j) = f[i, j].
Matrix(rows, cols, f) ==
    Tensor(<<rows, cols>>, [i \in 1..rows |-> [j \in 1..cols |-> f[i, j]]])

RECURSIVE SumTo(_, _)
\* f[1] + ... + f[k], accumulated from the left, starting from zero.
SumTo(f, k) == IF k = 0 THEN Zero ELSE FAdd(SumTo(f, k - 1), f[k])

\* tf.matmul can multiply P @ Q: two matrices whose inner dimensions agree.
CanMatMul(P, Q) == Rank(P) = 2 /\ Rank(Q) = 2 /\ P.shape[2] = Q.shape[1]

\* P @ Q
MatMul(P, Q) ==
    Matrix(P.shape[1], Q.shape[2],
           [i \in 1..P.shape[1], j \in 1..Q.shape[2] |-> SumTo([k \in 1..P.shape[2] |-> FMul(P.val[i][k], Q.val[k][j])],
                               P.shape[2])])

\* P + Q for two matrices of the same shape.
MatAdd(P, Q) ==
    Matrix(P.shape[1], P.shape[2], [i \in 1..P.shape[1], j \in 1..P.shape[2] |-> FAdd(P.val[i][j], Q.val[i][j])])

\* P - Q for two matrices of the same shape.
MatSub(P, Q) ==
    Matrix(P.shape[1], P.shape[2], [i \in 1..P.shape[1], j \in 1..P.shape[2] |-> FSub(P.val[i][j], Q.val[i][j])])

\* Every entry of the matrix P satisfies the predicate.
AllEntries(P, pred(_)) ==
    \A i \in 1..P.shape[1] : \A j \in 1..P.shape[2] : pred(P.val[i][j])

SomeEntry(P, pred(_)) ==
    \E i \in 1..P.shape[1] : \E j \in 1..P.shape[2] : pred(P.val[i][j])

\* The rectified-linear and the linear (identity) activation on one entry.
\* max(a, 0), which keeps NaN.
relu_entry(a) == IF a = NaN THEN NaN ELSE IF a[1] < 0 THEN Zero ELSE a

\* tf.keras.activations.get(name) applied to the matrix P.
Activate(name, P) ==
    IF name = "relu" THEN Matrix(P.shape[1], P.shape[2], [i \in 1..P.shape[1], j \in 1..P.shape[2] |-> relu_entry(P.val[i][j])])
    ELSE P

\* ------------------------------------------------ utils (adjacency helpers)

\* utils.get_degrees(A): the vector of the row sums of A.
get_degrees(A) ==
    Tensor(<<A.shape[1]>>, [i \in 1..A.shape[1] |-> SumTo(A.val[i], A.shape[2])])

\* utils.normalize_adjacency(A, rooted_subtree): row normalization of A, with
\* a self-loop added to every node unless the root is handled separately.
normalize_adjacency(A, rooted_subtree) ==
    LET Ahat == Matrix(A.shape[1], A.shape[2],
                       [i \in 1..A.shape[1], j \in 1..A.shape[2] |-> IF ~rooted_subtree /\ i = j
                                     THEN FAdd(A.val[i][j], Num(1)) ELSE A.val[i][j]])
        D == get_degrees(Ahat)
    IN  Matrix(A.shape[1], A.shape[2], [i \in 1..A.shape[1], j \in 1..A.shape[2] |-> FMul(FInv(D.val[i]), Ahat.val[i][j])])

\* --------------------------------------------------------- GraphConvolution

\* A parameter build() has not created (self.kernel = None, ...).
None == Tensor(<<-1>>, <<>>)


\* The draws of a random initializer that are followed: two sample matrices
\* per shape, with entries of both signs.
Draws == {"a", "b"}

\* Entry (i, j) of the matrix a draw gives.
DrawEntry(draw, i, j) ==
    IF draw = "a" THEN (IF (i + j) % 2 = 0 THEN Num(-1) ELSE Num(2))
    ELSE Num(i - 2 * j + 2)

\* initializer(shape=(rows, cols)): the matrices an initializer may give.
\* 'zeros' and 'ones' are constant, 'glorot_uniform' draws at random.
Initialize(initializer, rows, cols) ==
    CASE initializer = "zeros" -> {Matrix(rows, cols, [i \in 1..rows, j \in 1..cols |-> Zero])}
      [] initializer = "ones" -> {Matrix(rows, cols, [i \in 1..rows, j \in 1..cols |-> Num(1)])}
      [] initializer = "glorot_uniform" ->
            {Matrix(rows, cols, [i \in 1..rows, j \in 1..cols |-> DrawEntry(d, i, j)]) : d \in Draws}

\* add_weight(shape=(rows, cols), initializer): the matrices it may create.
add_weight(rows, cols, initializer) == Initialize(initializer, rows, cols)

\* add_weight(shape=(n,), initializer): the vectors it may create.
add_weight_vector(n, initializer) ==
    {Tensor(<<n>>, m.val[1]) : m \in Initialize(initializer, 1, n)}

\* GraphConvolution.__init__: the layer before its first invocation.
GraphConvolution(F_, auto_normalize, rooted_subtree, activation, use_bias, kernel_initializer, bias_initializer) ==
    [F_ |-> F_, auto_normalize |-> auto_normalize, rooted_subtree |-> rooted_subtree,
     activation |-> activation, use_bias |-> use_bias,
     kernel_initializer |-> kernel_initializer, bias_initializer |-> bias_initializer,
     built |-> FALSE,
     kernel |-> None, bias |-> None, rooted_kernel |-> None, edge_kernel |-> None]

\* assert len(input_shape) in [2, 3]
build_accepts(input_shape) == Len(input_shape) \in {2, 3}

\* A slip: the edge kernel skipped whenever the trailing dimension of the
\* third input is 0, whatever its rank.
build_edge_kernel_by_trailing_dim(self, input_shape) ==
    IF Len(input_shape) = 3 /\ input_shape[3][Len(input_shape[3])] # 0
    THEN add_weight(input_shape[3][Len(input_shape[3])], self.F_, self.kernel_initializer)
    ELSE {None}

\* The edge kernel build() may create: none unless a third input is there
\* and its shape is not (0,).
build_edge_kernel(self, input_shape) ==
    IF Len(input_shape) = 3 /\ input_shape[3] # <<0>>
    THEN add_weight(input_shape[3][Len(input_shape[3])], self.F_, self.kernel_initializer)
    ELSE {None}

\* The bias build() may create: none unless use_bias.
build_bias(self) ==
    IF self.use_bias THEN add_weight_vector(self.F_, self.bias_initializer) ELSE {None}

\* A slip: the root kernel created without initializer=..., so with
\* add_weight's default, glorot_uniform.
build_rooted_kernel_default_init(self, F) ==
    IF self.rooted_subtree THEN add_weight(F, self.F_, "glorot_uniform") ELSE {None}

\* The root kernel build() may create: none unless rooted_subtree.
build_rooted_kernel(self, F) ==
    IF self.rooted_subtree THEN add_weight(F, self.F_, self.kernel_initializer) ELSE {None}

\* GraphConvolution.build(input_shape), for an input_shape the assertion
\* accepts: the layers it may leave (one per draw of the initializers).
build(self, input_shape) ==
    LET F == input_shape[1][Len(input_shape[1])]
    IN  {[self EXCEPT !.built = TRUE, !.kernel = k, !.bias = b,
                      !.rooted_kernel = r, !.edge_kernel = e] :
            k \in add_weight(F, self.F_, self.kernel_initializer),
            b \in build_bias(self),
            r \in build_rooted_kernel(self, F),
            e \in build_edge_kernel(self, input_shape)}

\* A slip: the adjacency normalized whatever auto_normalize says.
call_A_always_normalized(self, inputs) ==
    normalize_adjacency(inputs[2], self.rooted_subtree)

\* The adjacency call() aggregates with (lines 95-97).
call_A(self, inputs) ==
    IF self.auto_normalize THEN normalize_adjacency(inputs[2], self.rooted_subtree)
    ELSE inputs[2]

\* A slip: the root term without the inverse degree.
rooted_term_unscaled(self, X, A) == MatMul(X, self.rooted_kernel)

\* tf.expand_dims(Dinv, axis=-1) * (X @ self.rooted_kernel)
rooted_term(self, X, A) ==
    LET D == get_degrees(A)
        XR == MatMul(X, self.rooted_kernel)
    IN  Matrix(XR.shape[1], XR.shape[2],
               [i \in 1..XR.shape[1], g \in 1..XR.shape[2] |-> FMul(FInv(D.val[i]), XR.val[i][g])])

\* tf.einsum('ij,ijf,fg->ig', A, Z, self.edge_kernel) accepts its operands.
CanEinsum(A, Z, K) ==
    /\ Rank(Z) = 3
    /\ Z.shape[1] = A.shape[1]
    /\ Z.shape[2] = A.shape[2]
    /\ Z.shape[3] = K.shape[1]

\* tf.einsum('ij,ijf,fg->ig', A, Z, self.edge_kernel)
edge_term(self, A, Z) ==
    LET K == self.edge_kernel
        N == A.shape[1]
        M == A.shape[2]
        Fe == K.shape[1]
        inner(i, j, g) == SumTo([f \in 1..Fe |-> FMul(Z.val[i][j][f], K.val[f][g])], Fe)
    IN  Matrix(N, K.shape[2],
               [i \in 1..N, g \in 1..K.shape[2] |-> SumTo([j \in 1..M |-> FMul(A.val[i][j], inner(i, j, g))], M)])

\* y + self.bias, the bias broadcast over the nodes.
add_bias(self, y) ==
    Matrix(y.shape[1], y.shape[2], [i \in 1..y.shape[1], g \in 1..y.shape[2] |-> FAdd(y.val[i][g], self.bias.val[g])])

\* A slip: the edge term also conditioned on the inputs of the call.
has_edge_term_by_inputs(self, inputs) == self.edge_kernel # None /\ Len(inputs) >= 3

\* if self.edge_kernel is not None
has_edge_term(self, inputs) == self.edge_kernel # None

\* The inputs with which call() raises instead of returning: a missing list
\* element or operands a tensor operation rejects.
call_fails(self, inputs) ==
    \/ Len(inputs) < 2
    \/ ~CanMatMul(call_A(self, inputs), inputs[1])
    \/ ~CanMatMul(inputs[1], self.kernel)
    \/ has_edge_term(self, inputs) /\ Len(inputs) < 3
    \/ has_edge_term(self, inputs)
            /\ ~CanEinsum(call_A(self, inputs), inputs[3], self.edge_kernel)

\* GraphConvolution.call(inputs) on a built layer, for inputs it does not
\* fail on: the matrix it returns.
call(self, inputs) ==
    LET X == inputs[1]
        A == call_A(self, inputs)
        y0 == MatMul(MatMul(A, X), self.kernel)
        y1 == IF self.rooted_subtree THEN MatAdd(y0, rooted_term(self, X, A)) ELSE y0
        y2 == IF has_edge_term(self, inputs) THEN MatAdd(y1, edge_term(self, A, inputs[3]))
              ELSE y1
        y3 == IF self.use_bias THEN add_bias(self, y2) ELSE y2
    IN  Activate(self.activation, y3)

\* The shapes of the tensors of an input list.
Shapes(inputs) == [k \in 1..Len(inputs) |-> inputs[k].shape]

\* Whether call() reaches utils.normalize_adjacency (line 97).
call_normalizes(self, inputs) == self.auto_normalize /\ Len(inputs) >= 2

\* A slip: build() run again by every invocation, so the parameters are
\* drawn again.
Invoke_rebuilding(self, inputs) ==
    IF ~build_accepts(Shapes(inputs))
    THEN {[layer |-> self, raised |-> TRUE, y |-> None, normalized |-> 0]}
    ELSE {[layer |-> l,
           raised |-> call_fails(l, inputs),
           y |-> IF call_fails(l, inputs) THEN None ELSE call(l, inputs),
           normalized |-> IF call_normalizes(l, inputs) THEN 1 ELSE 0] :
            l \in build(self, Shapes(inputs))}

\* layer(inputs), the invocation of a layer (keras Layer.__call__): the first
\* one runs build() on the shapes of the inputs, every one runs call().  The
\* outcomes it may have: the layer it leaves, whether it raised, the value
\* it returned and the number of adjacency normalizations it ran.
Invoke(self, inputs) ==
    IF ~self.built /\ ~build_accepts(Shapes(inputs))
    THEN {[layer |-> self, raised |-> TRUE, y |-> None, normalized |-> 0]}
    ELSE {[layer |-> l,
           raised |-> call_fails(l, inputs),
           y |-> IF call_fails(l, inputs) THEN None ELSE call(l, inputs),
           normalized |-> IF call_normalizes(l, inputs) THEN 1 ELSE 0] :
            l \in IF self.built THEN {self} ELSE build(self, Shapes(inputs))}

\* ------------------------------------------------------------------- inputs

\* The node counts of the input graphs.
Nodes == 1..MaxN

\* The widths F of the node features.
Widths == {1, 2}

\* Row i of an adjacency matrix on n nodes: no neighbour, the next node
\* around the ring, or every node (itself included).
AdjRows(n, i) ==
    {[j \in 1..n |-> Zero],
     [j \in 1..n |-> IF j = (i % n) + 1 THEN Num(1) ELSE Zero],
     [j \in 1..n |-> Num(1)]}

\* The adjacency matrices on n nodes.
Adjacencies(n) ==
    {Tensor(<<n, n>>, v) : v \in {w \in [1..n -> UNION {AdjRows(n, i) : i \in 1..n}] :
                                    \A i \in 1..n : w[i] \in AdjRows(n, i)}}

\* The (n, f) node feature matrices: all ones, rows of alternating sign
\* growing with the column, and entry (i, j) = i - j.
Features(n, f) ==
    {Matrix(n, f, [i \in 1..n, j \in 1..f |-> Num(1)]),
     Matrix(n, f, [i \in 1..n, j \in 1..f |-> IF i % 2 = 1 THEN Num(-j) ELSE Num(j)]),
     Matrix(n, f, [i \in 1..n, j \in 1..f |-> Num(i - j)])}

\* The (n, n, fe) edge feature tensor, entry (i, j, k) = i - j + k - 1.
EdgeFeatures(n, fe) ==
    Tensor(<<n, n, fe>>, [i \in 1..n |-> [j \in 1..n |-> [k \in 1..fe |-> Num(i - j + k - 1)]]])

\* The tensor of shape (0,) that stands for "no edge features".
NoEdges == Tensor(<<0>>, <<>>)

\* The ring on n nodes: every node has the next one as its only neighbour.
Ring(n) == Matrix(n, n, [i \in 1..n, j \in 1..n |-> IF j = (i % n) + 1 THEN Num(1) ELSE Zero])

\* The node feature matrix with rows of alternating sign.
SampleFeatures(n, f) == Matrix(n, f, [i \in 1..n, j \in 1..f |-> IF i % 2 = 1 THEN Num(-j) ELSE Num(j)])

\* The input lists a caller may hand to a layer over its life: of every
\* length from 0 to 4, the third element (0,)-shaped or an (n, n, fe) tensor
\* with fe 0 or 1.
CallInputs ==
    {<<>>} \cup
    UNION {{<<SampleFeatures(n, f)>>,
            <<SampleFeatures(n, f), Ring(n)>>,
            <<SampleFeatures(n, f), Ring(n), NoEdges>>,
            <<SampleFeatures(n, f), Ring(n), EdgeFeatures(n, 0)>>,
            <<SampleFeatures(n, f), Ring(n), EdgeFeatures(n, 1)>>,
            <<SampleFeatures(n, f), Ring(n), EdgeFeatures(n, 1), EdgeFeatures(n, 1)>>} :
            <<n, f>> \in Nodes \X Widths}

\* The input lists [X, A] and [X, A, Z] of one forward computation.
ForwardInputs ==
    UNION {{<<X, A>>, <<X, A, EdgeFeatures(n, 1)>>} :
            <<n, X, A>> \in UNION {{n} \X Features(n, f) \X Adjacencies(n) :
                        <<n, f>> \in Nodes \X Widths}}

\* ------------------------------------------------- GraphConvolution, driven

\* The output widths F_ layers are constructed with.
OutWidths == {1, 2}

\* The default of the constructor's bias_initializer (line 21).
DefaultBiasInitializer == "zeros"

\* The layers the constructor gives for the given initializers (a layer
\* without bias is given the default bias_initializer, which it never uses).
Layers(widths, activations, kernel_initializers, bias_initializers) ==
    UNION {{GraphConvolution(F_, an, rs, act, ub, ki, bi) :
                F_ \in widths, an \in BOOLEAN, rs \in BOOLEAN,
                act \in activations, ki \in kernel_initializers,
                bi \in IF ub THEN bias_initializers ELSE {DefaultBiasInitializer}} :
            ub \in BOOLEAN}

\* ------------------------------------------------- StackedGraphConvolution

\* A slip: the layers constructed with auto_normalize on.
StackedGraphConvolution_auto_normalize(num_layers, num_features, last_layer_only, rooted_subtree) ==
    [num_layers |-> num_layers, last_layer_only |-> last_layer_only,
     rooted_subtree |-> rooted_subtree,
     gc_layers |-> [k \in 1..num_layers |->
                        GraphConvolution(num_features, TRUE, rooted_subtree, "linear",
                                         TRUE, "glorot_uniform", "zeros")]]

\* StackedGraphConvolution.__init__: num_layers layers (none when num_layers
\* is not positive), each with the linear activation and the defaults of
\* GraphConvolution (auto_normalize off, bias, glorot_uniform, zeros).
StackedGraphConvolution(num_layers, num_features, last_layer_only, rooted_subtree) ==
    [num_layers |-> num_layers, last_layer_only |-> last_layer_only,
     rooted_subtree |-> rooted_subtree,
     gc_layers |-> [k \in 1..num_layers |->
                        GraphConvolution(num_features, FALSE, rooted_subtree, "linear",
                                         TRUE, "glorot_uniform", "zeros")]]

\* StackedGraphConvolution.vocab_size()
vocab_size(self) == IF self.last_layer_only THEN 1 ELSE self.num_layers

\* A slip: the last layer recognised by index == len(self.gc_layers).
keep_off_by_one(self, i) == ~self.last_layer_only \/ i = Len(self.gc_layers)

\* not self.last_layer_only or index+1 == len(self.gc_layers), index from 0.
keep(self, i) == ~self.last_layer_only \/ i + 1 = Len(self.gc_layers)

\* A slip: the activation applied before the output is kept.
iteration_activation_first(self, i, outs, layer_y) ==
    [outputs |-> IF keep(self, i) THEN Append(outs, Activate("relu", layer_y)) ELSE outs,
     x |-> Activate("relu", layer_y)]

\* Lines 133-135 of the loop, after layer number i + 1 returned layer_y: the
\* outputs and the x they leave.
iteration(self, i, outs, layer_y) ==
    [outputs |-> IF keep(self, i) THEN Append(outs, layer_y) ELSE outs,
     x |-> Activate("relu", layer_y)]

\* [x, A] + inputs[2:]
layer_inputs(x, A, inputs) == <<x, A>> \o SubSeq(inputs, 3, Len(inputs))

\* No model: the value of stack where only a layer is driven.
NoStack == StackedGraphConvolution(0, 0, FALSE, FALSE)

\* The state before the first invocation of a layer.
Fresh(l) ==
    /\ gc = l
    /\ args = <<>>
    /\ status = "new"
    /\ result = None
    /\ normalized = 0
    /\ stack = NoStack
    /\ pc = "idle"
    /\ call_inputs = <<>>
    /\ index = 0
    /\ cur_x = None
    /\ cur_A = None
    /\ outputs = <<>>
    /\ fed = <<>>

\* One invocation layer(inp).
LayerCall(inp) ==
    \E o \in Invoke(gc, inp) :
        /\ gc' = o.layer
        /\ args' = inp
        /\ status' = IF o.raised THEN "raised" ELSE "returned"
        /\ result' = o.y
        /\ normalized' = o.normalized
        /\ UNCHANGED stack_vars

\* A forward computation: a fresh layer, of any configuration, is invoked
\* once on a well-formed input list.
InitFwd ==
    \E l \in Layers(OutWidths, {"linear", "relu"}, {"zeros", "glorot_uniform"},
                     {"zeros", "ones"}) : Fresh(l)

Forward == status = "new" /\ \E inp \in ForwardInputs : LayerCall(inp)

NextFwd == Forward

SpecFwd == InitFwd /\ [][NextFwd]_vars

\* The life of one layer: constructed with the default initializers, then
\* invoked any number of times on any input lists.
Init == \E l \in Layers({2}, {"linear", "relu"}, {"glorot_uniform"}, {"zeros"}) : Fresh(l)

Call == \E inp \in CallInputs : LayerCall(inp)

Next == Call

Spec == Init /\ [][Next]_vars

\* The last element of a shape.
Trailing(shape) == shape[Len(shape)]

\* The step is the invocation that runs build() to its end.
Builds == ~gc.built /\ gc'.built

\* The parameters that exist in a built layer are those its flags ask for.
ParametersMatchFlags ==
    gc.built => /\ gc.kernel # None
                /\ (gc.bias # None) = gc.use_bias
                /\ (gc.rooted_kernel # None) = gc.rooted_subtree

\* An invocation leaves the layer as it was, and one that repeats the inputs
\* of the invocation before it ends as that one ended.
Untouched ==
    /\ gc' = gc
    /\ (args' = args /\ status = "returned") => (status' = "returned" /\ result' = result)

\* C5 as stated: from the first invocation on, whatever it was, the
\* parameters that exist and their values never change, and equal inputs
\* give equal outputs.
C5_Original ==
    /\ [](status # "new" => gc.kernel # None)
    /\ [][status # "new" => Untouched]_vars

\* C5, amended: the same from the first invocation that runs build() (the
\* first whose input list has 2 or 3 elements) on.
C5_ParametersFixed ==
    /\ []ParametersMatchFlags
    /\ [][gc.built => Untouched]_vars

\* C5's case: a layer built without edge kernel has returned from a later
\* invocation, one with edge features.
C5_Witness ==
    /\ gc.built /\ status = "returned"
    /\ gc.edge_kernel = None /\ gc.rooted_subtree /\ gc.use_bias
    /\ Len(args) = 3 /\ args[3].shape = <<2, 2, 1>>

\* C6 as stated: build creates edge_kernel iff there is a third input whose
\* trailing dimension is not 0, and then of shape (F_edge, F_out).
C6_Original ==
    [][Builds =>
        /\ (gc'.edge_kernel # None) = (Len(args') = 3 /\ Trailing(args'[3].shape) # 0)
        /\ gc'.edge_kernel # None
              => gc'.edge_kernel.shape = <<Trailing(args'[3].shape), gc.F_>>]_vars

\* C6, amended: build creates edge_kernel iff there is a third input whose
\* shape is not (0,), and then of shape (F_edge, F_out); an (N, N, 0) third
\* input gets an edge_kernel of shape (0, F_out).
C6_EdgeKernel ==
    [][Builds =>
        /\ (gc'.edge_kernel # None) = (Len(args') = 3 /\ args'[3].shape # <<0>>)
        /\ gc'.edge_kernel # None
              => gc'.edge_kernel.shape = <<Trailing(args'[3].shape), gc.F_>>]_vars

\* C6's case: build has created an edge kernel for a third input whose
\* feature axis has length 0.
C6_Witness == gc.built /\ gc.edge_kernel # None /\ gc.edge_kernel.shape = <<0, gc.F_>>

\* C7: an invocation on an input list of a length other than 2 or 3 raises
\* and leaves the layer as it was.
C7_BadArityRaises ==
    [][Len(args') \notin {2, 3} => (status' = "raised" /\ gc' = gc)]_vars

\* The same layer without its edge kernel.
Edgeless(self) == [self EXCEPT !.edge_kernel = None]

\* C10: the edge term is decided by the edge_kernel of the first invocation.
\* A layer built on 2 inputs has no edge_kernel; a layer without edge_kernel
\* returns what it returns on [X, A] alone, whatever third input it is given;
\* a layer with edge_kernel raises on 2 inputs and, when it returns (linear
\* activation), has added the edge term of the third input.
C10_EdgeTermByKernel ==
    /\ [][(Builds /\ Len(args') = 2) => gc'.edge_kernel = None]_vars
    /\ []((gc.built /\ gc.edge_kernel = None /\ status = "returned")
            => result = call(gc, SubSeq(args, 1, 2)))
    /\ []((gc.built /\ gc.edge_kernel # None /\ status # "new" /\ Len(args) = 2)
            => status = "raised")
    /\ []((gc.built /\ gc.edge_kernel # None /\ status = "returned"
              /\ gc.activation = "linear")
            => /\ Len(args) >= 3
               /\ MatSub(result, call(Edgeless(gc), SubSeq(args, 1, 2)))
                    = edge_term(gc, call_A(gc, args), args[3]))

\* C10's case: a layer without edge kernel has returned from an invocation
\* that supplied edge features.
C10_Witness ==
    /\ gc.built /\ gc.edge_kernel = None /\ status = "returned"
    /\ Len(args) = 3 /\ args[3].shape = <<2, 2, 1>>

\* C10's other case: a layer with a drawn edge kernel has raised on 2 inputs.
C10_WitnessRaised ==
    /\ gc.built /\ gc.edge_kernel # None /\ gc.edge_kernel.shape[1] = 1
    /\ status = "raised" /\ Len(args) = 2

\* ----------------------------------------- StackedGraphConvolution, driven

\* The num_layers the constructor accepts, range(num_layers) being empty
\* for 0 and for negative numbers.
NumLayers == -1..MaxLayers

\* The complete graph on n nodes, self-loops included.
Complete(n) == Matrix(n, n, [i \in 1..n, j \in 1..n |-> Num(1)])

\* The input lists a caller may hand to the model, of lengths 1 to 4, the
\* node features of width 1.
StackInputs ==
    UNION {{<<SampleFeatures(n, 1)>>,
            <<SampleFeatures(n, 1), A>>,
            <<SampleFeatures(n, 1), A, EdgeFeatures(n, 1)>>,
            <<SampleFeatures(n, 1), A, EdgeFeatures(n, 1), EdgeFeatures(n, 1)>>} :
            <<n, A>> \in UNION {{n} \X {Ring(n), Complete(n)} : n \in Nodes}}

InitStack ==
    /\ \E num_layers \in NumLayers, last_layer_only \in BOOLEAN, rooted_subtree \in BOOLEAN :
          stack = StackedGraphConvolution(num_layers, 2, last_layer_only, rooted_subtree)
    /\ pc = "idle"
    /\ call_inputs = <<>>
    /\ index = 0
    /\ cur_x = None
    /\ cur_A = None
    /\ outputs = <<>>
    /\ fed = <<>>
    /\ normalized = 0
    /\ gc = GraphConvolution(0, FALSE, FALSE, "linear", FALSE, "zeros", "zeros")
    /\ args = <<>>
    /\ status = "new"
    /\ result = None

\* Lines 128-130: the call starts; the adjacency is normalized.
StackBegin ==
    /\ pc # "loop"
    /\ \E inp \in StackInputs :
          /\ call_inputs' = inp
          /\ index' = 0
          /\ outputs' = <<>>
          /\ fed' = <<>>
          /\ IF Len(inp) < 2
             THEN /\ pc' = "raised"
                  /\ normalized' = 0
                  /\ cur_x' = None
                  /\ cur_A' = None
             ELSE /\ pc' = "loop"
                  /\ normalized' = 1
                  /\ cur_x' = inp[1]
                  /\ cur_A' = normalize_adjacency(inp[2], stack.rooted_subtree)
    /\ UNCHANGED <<stack, layer_vars>>

\* Lines 131-135: one turn of the loop, the invocation of the next layer.
StackLayer ==
    /\ pc = "loop"
    /\ index < Len(stack.gc_layers)
    /\ LET lin == layer_inputs(cur_x, cur_A, call_inputs)
       IN  \E o \in Invoke(stack.gc_layers[index + 1], lin) :
              /\ stack' = [stack EXCEPT !.gc_layers[index + 1] = o.layer]
              /\ fed' = Append(fed, [layer |-> index + 1, inputs |-> lin])
              /\ normalized' = normalized + o.normalized
              /\ IF o.raised
                 THEN /\ pc' = "raised"
                      /\ UNCHANGED <<index, cur_x, outputs>>
                 ELSE /\ pc' = "loop"
                      /\ index' = index + 1
                      /\ outputs' = iteration(stack, index, outputs, o.y).outputs
                      /\ cur_x' = iteration(stack, index, outputs, o.y).x
    /\ UNCHANGED <<call_inputs, cur_A, layer_vars>>

\* Line 136: the loop is over, the call returns outputs.
StackReturn ==
    /\ pc = "loop"
    /\ index = Len(stack.gc_layers)
    /\ pc' = "returned"
    /\ UNCHANGED <<stack, call_inputs, index, cur_x, cur_A, outputs, fed, normalized, layer_vars>>

NextStack == StackBegin \/ StackLayer \/ StackReturn

SpecStack == InitStack /\ [][NextStack]_vars

\* What layer number k of the model returned in the call under way: its
\* output before any activation, the layers being linear.
LayerOutput(k) == call(stack.gc_layers[k], fed[k].inputs)

\* The call is past its start and no layer has raised.
Running == pc \in {"loop", "returned"}

\* C2 as stated: for every num_layers the constructor accepts, vocab_size()
\* is 1 if last_layer_only and num_layers otherwise, and call returns a
\* sequence of that length.
C2_Original ==
    pc = "returned"
    => /\ vocab_size(stack) = IF stack.last_layer_only THEN 1 ELSE stack.num_layers
       /\ Len(outputs) = vocab_size(stack)

\* C2, amended: the same for every num_layers >= 1.
C2_VocabSize ==
    (pc = "returned" /\ stack.num_layers >= 1)
    => /\ vocab_size(stack) = IF stack.last_layer_only THEN 1 ELSE stack.num_layers
       /\ Len(outputs) = vocab_size(stack)

\* C2's case: a model of 2 layers that keeps the last layer only has returned.
C2_Witness ==
    /\ pc = "returned"
    /\ stack.num_layers = 2 /\ stack.last_layer_only
    /\ Len(outputs) = 1

\* C3: the layers run in list order; layer 1 is fed the caller's features and
\* layer k + 1 the ReLU of what layer k returned; the k-th kept element is
\* what layer k returned, before the ReLU; with last_layer_only the one kept
\* element is what the last layer returned.
C3_PreActivation ==
    Running =>
        /\ Len(fed) = index
        /\ \A k \in 1..index :
              /\ fed[k].layer = k
              /\ stack.gc_layers[k].activation = "linear"
              /\ fed[k].inputs[1] = IF k = 1 THEN call_inputs[1]
                                    ELSE Activate("relu", LayerOutput(k - 1))
        /\ ~stack.last_layer_only
              => /\ Len(outputs) = index
                 /\ \A k \in 1..index : outputs[k] = LayerOutput(k)
        /\ (stack.last_layer_only /\ pc = "returned" /\ stack.num_layers >= 1)
              => outputs = <<LayerOutput(stack.num_layers)>>

\* C3's case: a model of 2 layers has returned both outputs, the first with
\* a negative entry that the features fed to layer 2 do not have.
C3_Witness ==
    /\ pc = "returned"
    /\ stack.num_layers = 2 /\ ~stack.last_layer_only
    /\ SomeEntry(outputs[1], LAMBDA a : a[1] < 0)
    /\ AllEntries(fed[2].inputs[1], LAMBDA a : a[1] >= 0)

\* C4: one call normalizes the adjacency once, before any layer runs, and
\* every layer is invoked on that normalized matrix; no layer normalizes.
C4_NormalizedOnce ==
    /\ \A k \in 1..Len(stack.gc_layers) : ~stack.gc_layers[k].auto_normalize
    /\ \A k \in 1..Len(fed) : fed[k].inputs[2] = cur_A
    /\ pc = "raised" => normalized = IF Len(call_inputs) >= 2 THEN 1 ELSE 0
    /\ Running
          => /\ normalized = 1
             /\ cur_A = normalize_adjacency(call_inputs[2], stack.rooted_subtree)

\* C4's case: both layers of a model have run on a normalized adjacency that
\* differs from the caller's.
C4_Witness ==
    /\ pc = "returned"
    /\ Len(fed) = 2
    /\ normalized = 1
    /\ cur_A # call_inputs[2]

\* ------------------------------------------------------ forward computation

\* The layer with every entry of the matrix P multiplied by the scalar c.
Scaled(c, P) == Matrix(P.shape[1], P.shape[2], [i \in 1..P.shape[1], j \in 1..P.shape[2] |-> FMul(c, P.val[i][j])])

\* Every row of the adjacency A sums to d.
UniformDegree(A, d) == \A i \in 1..A.shape[1] : get_degrees(A).val[i] = d

\* The all-zero matrix of shape (rows, cols).
ZeroMatrix(rows, cols) == Matrix(rows, cols, [i \in 1..rows, j \in 1..cols |-> Zero])

\* C1: without bias, with the identity activation, rooted_subtree and
\* auto_normalize off and the input list [X, A], call returns exactly
\* A @ X @ kernel.
C1_PlainOutput ==
    (/\ status = "returned"
     /\ ~gc.use_bias /\ gc.activation = "linear"
     /\ ~gc.rooted_subtree /\ ~gc.auto_normalize
     /\ Len(args) = 2)
    => result = MatMul(MatMul(args[2], args[1]), gc.kernel)

\* C1's case: such a call has returned a matrix that is not all zero.
C1_Witness ==
    /\ status = "returned"
    /\ ~gc.use_bias /\ gc.activation = "linear"
    /\ ~gc.rooted_subtree /\ ~gc.auto_normalize
    /\ Len(args) = 2
    /\ args[2].shape[1] = 2
    /\ SomeEntry(result, LAMBDA a : a # Zero)

\* The same layer with rooted_subtree disabled.
Unrooted(self) == [self EXCEPT !.rooted_subtree = FALSE]

\* The root term the layer's output differs by from its unrooted twin's, on
\* an adjacency of uniform degree d: (1/d) * X @ rooted_kernel.
UniformRootTerm(d) == Scaled(FInv(d), MatMul(args[1], gc.rooted_kernel))

\* C8 as stated: on an adjacency of uniform nonzero row degree d, the output
\* with rooted_subtree minus the output without it is (1/d) * X @ rooted_kernel.
C8_Original ==
    \A d \in {Num(k) : k \in 1..(MaxN + 1)} :
        (/\ status = "returned"
         /\ gc.rooted_subtree /\ gc.activation = "linear"
         /\ UniformDegree(args[2], d))
        => MatSub(result, call(Unrooted(gc), args)) = UniformRootTerm(d)

\* C8, amended: the same, for a layer that does not normalize the adjacency
\* itself (auto_normalize false).
C8_RootTerm ==
    \A d \in {Num(k) : k \in 1..(MaxN + 1)} :
        (/\ status = "returned"
         /\ gc.rooted_subtree /\ gc.activation = "linear" /\ ~gc.auto_normalize
         /\ UniformDegree(args[2], d))
        => MatSub(result, call(Unrooted(gc), args)) = UniformRootTerm(d)

\* C8's case: a rooted layer has returned on an adjacency of uniform degree 2
\* and its root term is not zero.
C8_Witness ==
    /\ status = "returned"
    /\ gc.rooted_subtree /\ gc.activation = "linear" /\ ~gc.auto_normalize
    /\ UniformDegree(args[2], Num(2))
    /\ SomeEntry(UniformRootTerm(Num(2)), LAMBDA a : a # Zero)

\* C9 as stated: with the linear activation and a zero-initialized kernel the
\* output is the all-zero (N, F_out) matrix.
C9_Original ==
    (/\ status = "returned"
     /\ gc.activation = "linear" /\ gc.kernel_initializer = "zeros")
    => result = ZeroMatrix(args[1].shape[1], gc.F_)

\* C9, amended: the same, when the bias is disabled or zero-initialized, the
\* adjacency the layer aggregates with has finite entries and, under
\* rooted_subtree, no node of degree zero.
C9_ZeroKernel ==
    (/\ status = "returned"
     /\ gc.activation = "linear" /\ gc.kernel_initializer = "zeros"
     /\ ~gc.use_bias \/ gc.bias_initializer = "zeros"
     /\ AllEntries(call_A(gc, args), IsFinite)
     /\ gc.rooted_subtree => \A i \in 1..args[2].shape[1] :
                                get_degrees(call_A(gc, args)).val[i] # Zero)
    => result = ZeroMatrix(args[1].shape[1], gc.F_)

\* C9's case: a rooted, biased layer with zero kernels has returned on an
\* input list with edge features.
C9_Witness ==
    /\ status = "returned"
    /\ gc.activation = "linear" /\ gc.kernel_initializer = "zeros"
    /\ gc.use_bias /\ gc.bias_initializer = "zeros"
    /\ gc.rooted_subtree /\ gc.edge_kernel # None
    /\ AllEntries(call_A(gc, args), IsFinite)
    /\ \A i \in 1..args[2].shape[1] : get_degrees(call_A(gc, args)).val[i] # Zero
    /\ result = ZeroMatrix(2, 2)

====
